---- MODULE Spec2Model ----
(***************************************************************************)
(* Model of the rate-limited UI Automation event handler of                *)
(* nvdaHelper/local/UIAEventLimiter.cpp: the event records, the sink       *)
(* (RateLimitedEventHandler: the three intakes, queueEvent, flush) and the *)
(* C entry points rateLimitedUIAEventHandler_create and ..._flush.         *)
(*                                                                         *)
(* Threads call the intakes and flush concurrently.  The mutex is modelled *)
(* explicitly; each critical section is two steps, so that it is the mutex *)
(* and not the step size that keeps other threads out.                     *)
(*                                                                         *)
(* Undefined behaviour of the source is a nondeterministic choice:         *)
(*  - EventRecord_t's constructor initialises the member isCoalesceable    *)
(*    from itself (the parameter is spelled isCoAlesceable), so the member *)
(*    is indeterminate (line 52);                                          *)
(*  - queueEvent moves `record` into the list (line 117) and then reads    *)
(*    and writes through the moved-from, null unique_ptr (lines 118-132):  *)
(*    the thread faults, or the loads yield indeterminate values and the   *)
(*    store is lost or lands in the record just inserted;                  *)
(*  - a null element is dereferenced by getRuntimeIDFromElement (line 32); *)
(*  - an empty std::function throws when called (line 138).                *)
(* A fault ends the process: no further step is taken.                     *)
(***************************************************************************)
EXTENDS Integers, Sequences, FiniteSets, TLC

\* ------------------------------------------------------------------ bounds

\* Total number of records constructed (intakes that pass the capability
\* check) in a run.
MaxIntakes == 2

\* ------------------------------------------------------------- the domain

Threads == {1, 2}
NoThread == 0

NULL == "NULL"
Sink == "sink"
Elements == {"E1", "E2"}
Values == {7}
EventIds == {20008}
PropertyIds == {30001}

\* uiautomation.h: the event id pushed into a property-changed key (line 85).
UIA_AutomationPropertyChangedEventId == 20004

Kinds == {"Focus", "Automation", "PropertyChanged"}

S_OK == "S_OK"
E_NOTIMPL == "E_NOTIMPL"
E_INVALIDARG == "E_INVALIDARG"
E_FAIL == "E_FAIL"
NoResult == "pending"

\* The outcome "the thread faults" of an undefined operation.
Fault == [fault |-> TRUE]

\* A null std::unique_ptr<EventRecord_t>.
NullRecord == [id |-> 0]

\* IUIAutomationElement::GetRuntimeId of the two elements of the scenarios.
RuntimeId(pElement) == IF pElement = "E1" THEN <<1, 2, 3>> ELSE <<4, 5, 6>>

EmptyMap == <<>>

VARIABLES
    handlers,            \* kinds whose m_pExisting...Handler is non-null
    m_onFirstEvent,      \* "callable", or "empty" (built from a null function pointer)
    m_refCount,          \* the sink's reference count; 0: there is no sink
    creation,            \* rateLimitedUIAEventHandler_create's arguments and the HRESULT it returned
    mtx,                 \* owner of the mutex, or NoThread
    m_eventRecords,      \* std::list of records
    m_eventRecordsByKey, \* std::map key -> iterator (the id of the record it points at)
    pc,                  \* per thread: position in the code
    call,                \* per thread: the entry point running and its arguments
    newRecordIter,       \* per thread: queueEvent's newRecordIter (a record id; 0: none)
    needsCallback,       \* per thread: queueEvent's needsCallback
    eventRecordsCopy,    \* per thread: flush's eventRecordsCopy
    emitPos,             \* per thread: flush's position in the emit loop
    result,              \* per thread: the HRESULT returned
    crashed,             \* the process has faulted
    nextId,              \* number of records constructed so far
    notifiedInCall,      \* history, per thread: invocations of m_onFirstEvent by the running call
    upstream,            \* history, per thread: upstream handler calls of the running flush
    intakeLog,           \* history: what was inserted since the last drain, in insert order
    delivered,           \* history: per record id, the number of upstream calls made for it
    flushesDue,          \* the host: flushes the callback has posted that have not started yet
    flushLog,            \* history, per thread: intakeLog as the running flush drained it
    foundEmpty,          \* history, per thread: the running intake found the list empty
    moved,               \* history, per thread: the record the running intake moved into the list, while it holds the lock
    serial,              \* history: list and map had every critical section run at once
    serialCopy,          \* history, per thread: what the running flush drains in that run
    serialFirst          \* history, per thread: the running intake is first in that run

construction == <<handlers, m_onFirstEvent, m_refCount, creation>>
shared == <<construction, mtx, m_eventRecords, m_eventRecordsByKey>>
locals == <<pc, call, newRecordIter, needsCallback, eventRecordsCopy, emitPos, result>>
ghost == <<flushLog, foundEmpty, moved, serial, serialCopy, serialFirst>>
history == <<nextId, notifiedInCall, upstream, intakeLog, delivered, flushesDue, ghost>>
vars == <<shared, locals, crashed, history>>

NoCall == [op |-> "none", kind |-> "none", element |-> NULL]

\* ------------------------------------------------------------ event records

\* getRuntimeIDFromElement: the element's runtime id; a null element is
\* dereferenced (undefined: a fault, or some vector).
getRuntimeIDFromElement(pElement) ==
    IF pElement = NULL
    THEN {Fault} \cup {[runtimeID |-> <<>>]}
                 \cup {[runtimeID |-> RuntimeId(e)] : e \in Elements}
    ELSE {[runtimeID |-> RuntimeId(pElement)]}

\* EventRecord_t's constructor: the member isCoalesceable is initialised from
\* itself, so it is indeterminate whatever the subclass passes; the key is the
\* runtime id when the member happens to be true.  Yields the possible
\* (isCoalesceable, coalescingKey) headers, or Fault.
EventRecord_t(pElement) ==
    {[isCoalesceable |-> FALSE, coalescingKey |-> <<>>]}
    \cup {IF rid = Fault THEN Fault
                         ELSE [isCoalesceable |-> TRUE, coalescingKey |-> rid.runtimeID] :
            rid \in getRuntimeIDFromElement(pElement)}

Header(hd, id, kind, pElement, eventID, propertyID, value, suffix) ==
    [id |-> id, kind |-> kind, element |-> pElement,
     eventID |-> eventID, propertyID |-> propertyID, value |-> value,
     isCoalesceable |-> hd.isCoalesceable,
     coalescingKey |-> hd.coalescingKey \o suffix,
     coalesceCount |-> 0, isOld |-> FALSE]

FocusChangedEventRecord_t(id, pElement) ==
    {IF hd = Fault THEN Fault
     ELSE Header(hd, id, "Focus", pElement, 0, 0, 0, <<>>) :
        hd \in EventRecord_t(pElement)}

AutomationEventRecord_t(id, pElement, eventID) ==
    {IF hd = Fault THEN Fault
     ELSE Header(hd, id, "Automation", pElement, eventID, 0, 0, <<eventID>>) :
        hd \in EventRecord_t(pElement)}

PropertyChangedEventRecord_t(id, pElement, propertyID, value) ==
    {IF hd = Fault THEN Fault
     ELSE Header(hd, id, "PropertyChanged", pElement, 0, propertyID, value,
                 <<UIA_AutomationPropertyChangedEventId, propertyID>>) :
        hd \in EventRecord_t(pElement)}

\* ------------------------------------------------------------------- state

\* The constructor (lines 171-174): the three CComQIPtr members are non-null
\* for the interfaces the existing handler exposes, the std::function wraps
\* the function pointer (it is empty for a null one), the count starts at 1.
RateLimitedEventHandler(exposes, onFirstEvent) ==
    [handlers |-> exposes,
     m_onFirstEvent |-> IF onFirstEvent = NULL THEN "empty" ELSE "callable",
     m_refCount |-> 1]

\* The arguments of a call of rateLimitedUIAEventHandler_create and its status.
Creation(pExistingHandler, exposes, onFirstEvent, ppRateLimitedEventHandler, status) ==
    [pExistingHandler |-> pExistingHandler, exposes |-> exposes,
     onFirstEvent |-> onFirstEvent,
     ppRateLimitedEventHandler |-> ppRateLimitedEventHandler,
     status |-> status]

\* No call is running and nothing is buffered.
NoCalls ==
    /\ mtx = NoThread
    /\ m_eventRecords = <<>>
    /\ m_eventRecordsByKey = EmptyMap
    /\ pc = [t \in Threads |-> "idle"]
    /\ call = [t \in Threads |-> NoCall]
    /\ newRecordIter = [t \in Threads |-> 0]
    /\ needsCallback = [t \in Threads |-> FALSE]
    /\ eventRecordsCopy = [t \in Threads |-> <<>>]
    /\ emitPos = [t \in Threads |-> 0]
    /\ result = [t \in Threads |-> NoResult]
    /\ crashed = FALSE
    /\ nextId = 0
    /\ notifiedInCall = [t \in Threads |-> 0]
    /\ upstream = [t \in Threads |-> <<>>]
    /\ intakeLog = <<>>
    /\ flushLog = [t \in Threads |-> <<>>]
    /\ foundEmpty = [t \in Threads |-> FALSE]
    /\ moved = [t \in Threads |-> NullRecord]
    /\ serial = [records |-> <<>>, byKey |-> EmptyMap]
    /\ serialCopy = [t \in Threads |-> <<>>]
    /\ serialFirst = [t \in Threads |-> FALSE]
    /\ delivered = <<>>
    /\ flushesDue = 0

\* The sink after construction by rateLimitedUIAEventHandler_create: the
\* existing handler exposes any of the three interfaces (CComQIPtr), the
\* callback is any function pointer, null included.
Init ==
    /\ \E exposes \in SUBSET Kinds, onFirstEvent \in {"fn", NULL} :
         LET sink == RateLimitedEventHandler(exposes, onFirstEvent)
         IN  /\ handlers = sink.handlers
             /\ m_onFirstEvent = sink.m_onFirstEvent
             /\ m_refCount = sink.m_refCount
             /\ creation = Creation("handler", exposes, onFirstEvent, "out", S_OK)
    /\ NoCalls

\* Before rateLimitedUIAEventHandler_create is called: there is no sink.
InitCreate ==
    /\ handlers = {}
    /\ m_onFirstEvent = "empty"
    /\ m_refCount = 0
    /\ creation = Creation(NULL, {}, NULL, NULL, NoResult)
    /\ NoCalls

\* Line 286: the arguments rateLimitedUIAEventHandler_create refuses.
InvalidCreateArgs(pExistingHandler, onFirstEvent, ppRateLimitedEventHandler) ==
    pExistingHandler = NULL \/ ppRateLimitedEventHandler = NULL

\* rateLimitedUIAEventHandler_create, lines 284-299, called while no sink
\* exists; exposes are the interfaces the existing handler answers to.  (new
\* throws rather than returning null, so E_OUTOFMEMORY is not returned.)
rateLimitedUIAEventHandler_create(pExistingHandler, exposes, onFirstEvent, ppRateLimitedEventHandler) ==
    /\ ~crashed
    /\ m_refCount = 0
    /\ IF InvalidCreateArgs(pExistingHandler, onFirstEvent, ppRateLimitedEventHandler)
       THEN /\ creation' = Creation(pExistingHandler, exposes, onFirstEvent,
                                    ppRateLimitedEventHandler, E_INVALIDARG)
            /\ UNCHANGED <<handlers, m_onFirstEvent, m_refCount>>
       ELSE LET sink == RateLimitedEventHandler(exposes, onFirstEvent)
            IN  /\ handlers' = sink.handlers
                /\ m_onFirstEvent' = sink.m_onFirstEvent
                /\ m_refCount' = sink.m_refCount
                /\ creation' = Creation(pExistingHandler, exposes, onFirstEvent,
                                        ppRateLimitedEventHandler, S_OK)
    /\ UNCHANGED <<mtx, m_eventRecords, m_eventRecordsByKey, locals, crashed,
                   history>>

\* The host behind the callback and the flush entry point: AnyHost calls flush
\* whenever it likes; PostingHost's callback posts one deferred flush per
\* invocation, and it calls flush once for each flush posted.
AnyHost == "any"
PostingHost == "posting"

\* A faulty lock, against which C10 is tested: it does not exclude.
LockAvailable_NoExclusion(m) == TRUE

\* std::lock_guard lock(mtx) can be constructed when nobody owns the mutex.
LockAvailable(m) == m = NoThread

\* A faulty scope, against which C17 is tested: the lock_guard outlives the
\* block and the lock stays with its owner.
ReleasedLock_Held(m) == m

\* Lines 135, 253: the lock_guard's scope ends, the mutex is released.
ReleasedLock(m) == NoThread

\* -------------------------------------------------------------- queueEvent

\* A faulty insert, against which C18 is tested: the record is not counted.
InsertRecord_Uncounted(records, r) == Append(records, r)

\* Lines 116-117: count the record itself and move it to the end of the list.
InsertRecord(records, r) ==
    Append(records, [r EXCEPT !.coalesceCount = @ + 1])

\* Lines 111-114: the callback is needed when the list is empty.
NeedsCallback(records, r) == records = <<>>

\* What a Handle...Event call does after its capability check: it constructs
\* the record (outside the lock; make_unique never yields null, so
\* queueEvent's E_INVALIDARG is not returned), then, lines 110-117, takes the
\* lock, notes whether the list is empty and inserts the record.
queueEvent_insert(t, recs) ==
    /\ nextId < MaxIntakes
    /\ nextId' = nextId + 1
    /\ \E r \in recs :
         IF r = Fault
         THEN /\ crashed' = TRUE
              /\ pc' = [pc EXCEPT ![t] = "fault"]
              /\ UNCHANGED <<mtx, m_eventRecords, newRecordIter, needsCallback,
                             intakeLog, foundEmpty, moved>>
         ELSE /\ LockAvailable(mtx)
              /\ mtx' = t
              /\ needsCallback' = [needsCallback EXCEPT ![t] =
                                        NeedsCallback(m_eventRecords, r)]
              /\ m_eventRecords' = InsertRecord(m_eventRecords, r)
              /\ newRecordIter' = [newRecordIter EXCEPT ![t] = r.id]
              /\ intakeLog' = Append(intakeLog,
                                     [id |-> r.id, kind |-> r.kind,
                                      element |-> r.element,
                                      eventID |-> r.eventID,
                                      propertyID |-> r.propertyID,
                                      value |-> r.value,
                                      coalescingKey |-> r.coalescingKey,
                                      wasEmpty |-> m_eventRecords = <<>>])
              /\ foundEmpty' = [foundEmpty EXCEPT ![t] = m_eventRecords = <<>>]
              /\ moved' = [moved EXCEPT ![t] = r]
              /\ pc' = [pc EXCEPT ![t] = "q_coalesce"]
              /\ UNCHANGED crashed
    /\ UNCHANGED <<construction, m_eventRecordsByKey,
                   eventRecordsCopy, emitPos, result, notifiedInCall, upstream,
                   delivered, flushesDue, flushLog, serial, serialCopy,
                   serialFirst>>

\* A faulty capability check, against which C7 is tested: every intake
\* checks the focus-changed handler.
HasHandler_FocusOnly(kind, hs) == "Focus" \in hs

\* Lines 214, 225, 237: whether the upstream handler of the kind is non-null.
HasHandler(kind, hs) == kind \in hs

\* Lines 212-220, 223-231, 234-243: the capability check of an intake; without
\* the upstream handler the call returns E_NOTIMPL.
Intake(t, c, hasHandler, recs) ==
    /\ ~crashed
    /\ pc[t] = "idle"
    /\ call' = [call EXCEPT ![t] = c]
    /\ IF ~hasHandler
       THEN /\ result' = [result EXCEPT ![t] = E_NOTIMPL]
            /\ pc' = [pc EXCEPT ![t] = "ret"]
            /\ UNCHANGED <<shared, newRecordIter, needsCallback,
                           eventRecordsCopy, emitPos, crashed, history>>
       ELSE queueEvent_insert(t, recs)

HandleAutomationEvent(t, pElement, eventID) ==
    Intake(t, [op |-> "HandleAutomationEvent", kind |-> "Automation",
               element |-> pElement],
           HasHandler("Automation", handlers),
           AutomationEventRecord_t(nextId + 1, pElement, eventID))

HandleFocusChangedEvent(t, pElement) ==
    Intake(t, [op |-> "HandleFocusChangedEvent", kind |-> "Focus",
               element |-> pElement],
           HasHandler("Focus", handlers),
           FocusChangedEventRecord_t(nextId + 1, pElement))

HandlePropertyChangedEvent(t, pElement, propertyID, newValue) ==
    Intake(t, [op |-> "HandlePropertyChangedEvent", kind |-> "PropertyChanged",
               element |-> pElement],
           HasHandler("PropertyChanged", handlers),
           PropertyChangedEventRecord_t(nextId + 1, pElement, propertyID, newValue))

\* The positions of the record an iterator (a record id) points at, in a list.
AtIter(records, it) ==
    {i \in 1..Len(records) : records[i].id = it}

\* What the loads and the store through the moved-from `record` can do when
\* they do not fault: isCoalesceable reads as anything; coalescingKey reads as
\* the key of the record that was moved (the one newRecordIter points at) or
\* as an empty vector; the store of line 124 is lost or lands in that record.
LoadsThroughNull(records, newIter) ==
    [isCoalesceable : BOOLEAN,
     coalescingKey : {<<>>} \cup {records[i].coalescingKey : i \in AtIter(records, newIter)},
     storeLands : BOOLEAN]

\* Lines 118-134 on the list and the map, for one outcome ld of the loads.
Coalesce(records, byKey, newIter, ld) ==
    IF ~ld.isCoalesceable
    THEN [records |-> records, byKey |-> byKey]
    ELSE IF ld.coalescingKey \in DOMAIN byKey
    THEN LET existingRecordIter == byKey[ld.coalescingKey]
             add == IF AtIter(records, existingRecordIter) = {} THEN 0
                    ELSE records[CHOOSE i \in AtIter(records, existingRecordIter) : TRUE].coalesceCount
         IN  [records |->
                [i \in 1..Len(records) |->
                    IF records[i].id = existingRecordIter
                    THEN [records[i] EXCEPT !.isOld = TRUE]
                    ELSE IF records[i].id = newIter /\ ld.storeLands
                    THEN [records[i] EXCEPT !.coalesceCount = @ + add]
                    ELSE records[i]],
              \* line 129: existingKeyIter->second = existingRecordIter
              byKey |-> [byKey EXCEPT ![ld.coalescingKey] = existingRecordIter]]
    ELSE [records |-> records, byKey |-> (ld.coalescingKey :> newIter) @@ byKey]

\* Line 127 on a list the iterator of a hit may point into (0: no hit).
MarkOld(records, existingRecordIter) ==
    [i \in 1..Len(records) |->
        IF records[i].id = existingRecordIter
        THEN [records[i] EXCEPT !.isOld = TRUE]
        ELSE records[i]]

\* The iterator lines 120-123 find for one outcome ld of the loads (0: none).
ExistingRecordIter(byKey, ld) ==
    IF ld.isCoalesceable /\ ld.coalescingKey \in DOMAIN byKey
    THEN byKey[ld.coalescingKey]
    ELSE 0

\* Lines 118-135: the coalescing block and the release of the lock.  A list
\* iterator stays valid across std::list::swap, so an entry of the map could
\* point into the local list of a running flush; line 127 writes there.
queueEvent_coalesce(t) ==
    /\ ~crashed
    /\ pc[t] = "q_coalesce"
    /\ \E ld \in LoadsThroughNull(m_eventRecords, newRecordIter[t]) :
         LET after == Coalesce(m_eventRecords, m_eventRecordsByKey,
                               newRecordIter[t], ld)
             atOnce == Coalesce(InsertRecord(serial.records, moved[t]),
                                serial.byKey, newRecordIter[t], ld)
         IN /\ m_eventRecords' = after.records
            /\ m_eventRecordsByKey' = after.byKey
            /\ eventRecordsCopy' =
                  [u \in Threads |->
                      MarkOld(eventRecordsCopy[u],
                              ExistingRecordIter(m_eventRecordsByKey, ld))]
            /\ serial' = atOnce
    /\ serialFirst' = [serialFirst EXCEPT ![t] = serial.records = <<>>]
    /\ moved' = [moved EXCEPT ![t] = NullRecord]
    /\ mtx' = ReleasedLock(mtx)
    /\ pc' = [pc EXCEPT ![t] = "q_notify"]
    /\ UNCHANGED <<construction, call, newRecordIter, needsCallback,
                   emitPos, result, crashed, nextId,
                   notifiedInCall, upstream, intakeLog, delivered, flushesDue,
                   flushLog, foundEmpty, serialCopy>>

\* Line 118: the read through the null `record` faults.
queueEvent_fault(t) ==
    /\ ~crashed
    /\ pc[t] = "q_coalesce"
    /\ crashed' = TRUE
    /\ pc' = [pc EXCEPT ![t] = "fault"]
    /\ UNCHANGED <<shared, call, newRecordIter, needsCallback,
                   eventRecordsCopy, emitPos, result, history>>

\* A faulty decision, against which C5 is tested: the callback is fired for
\* every event.
FiresCallback_Always(needs, kind) == TRUE

\* Line 136: whether queueEvent fires the callback.
FiresCallback(needs, kind) == needs

\* Lines 136-141: fire the callback if this was the first record, return S_OK.
\* The callback of a posting host posts a flush.
\* An empty std::function throws std::bad_function_call out of the COM method.
queueEvent_notify(t, host) ==
    /\ ~crashed
    /\ pc[t] = "q_notify"
    /\ IF FiresCallback(needsCallback[t], call[t].kind)
       THEN IF m_onFirstEvent = "callable"
            THEN /\ notifiedInCall' = [notifiedInCall EXCEPT ![t] = @ + 1]
                 /\ flushesDue' = IF host = PostingHost THEN flushesDue + 1
                                  ELSE flushesDue
                 /\ result' = [result EXCEPT ![t] = S_OK]
                 /\ pc' = [pc EXCEPT ![t] = "ret"]
                 /\ UNCHANGED crashed
            ELSE /\ crashed' = TRUE
                 /\ pc' = [pc EXCEPT ![t] = "fault"]
                 /\ UNCHANGED <<notifiedInCall, flushesDue, result>>
       ELSE /\ result' = [result EXCEPT ![t] = S_OK]
            /\ pc' = [pc EXCEPT ![t] = "ret"]
            /\ UNCHANGED <<notifiedInCall, flushesDue, crashed>>
    /\ UNCHANGED <<shared, call, newRecordIter, needsCallback,
                   eventRecordsCopy, emitPos, nextId, upstream, intakeLog,
                   delivered, ghost>>

\* ------------------------------------------------------------------- flush

\* A faulty argument check, against which C9 is tested: it is inverted.
InvalidSink_Inverted(pRateLimitedEventHandler) == pRateLimitedEventHandler # NULL

\* Line 303: the argument check of rateLimitedUIAEventHandler_flush.
InvalidSink(pRateLimitedEventHandler) == pRateLimitedEventHandler = NULL

\* A faulty drain, against which C20 is tested: the list is copied, not swapped.
DrainedRecords_Copied(records, local) == records

\* Line 250: the sink's list after the swap with flush's local list.
DrainedRecords(records, local) == local

\* rateLimitedUIAEventHandler_flush, lines 301-307: a null sink is refused;
\* otherwise flush starts: its local containers are empty (lines 247-248) and,
\* lines 249-250, it takes the lock and swaps the list with the local list.
\* A posting host makes the call for a flush it has posted.
rateLimitedUIAEventHandler_flush(t, pRateLimitedEventHandler, host) ==
    /\ ~crashed
    /\ pc[t] = "idle"
    /\ host = PostingHost => flushesDue > 0
    /\ call' = [call EXCEPT ![t] = [op |-> "flush", kind |-> "none",
                                    element |-> pRateLimitedEventHandler]]
    /\ IF InvalidSink(pRateLimitedEventHandler)
       THEN /\ result' = [result EXCEPT ![t] = E_INVALIDARG]
            /\ pc' = [pc EXCEPT ![t] = "ret"]
            /\ UNCHANGED <<mtx, m_eventRecords, eventRecordsCopy, intakeLog,
                           flushLog, flushesDue>>
       ELSE /\ LockAvailable(mtx)
            /\ mtx' = t
            /\ flushesDue' = IF host = PostingHost THEN flushesDue - 1
                             ELSE flushesDue
            /\ eventRecordsCopy' = [eventRecordsCopy EXCEPT ![t] = m_eventRecords]
            /\ m_eventRecords' = DrainedRecords(m_eventRecords, eventRecordsCopy[t])
            /\ intakeLog' = <<>>
            /\ flushLog' = [flushLog EXCEPT ![t] = intakeLog]
            /\ pc' = [pc EXCEPT ![t] = "f_swapKeys"]
            /\ UNCHANGED result
    /\ UNCHANGED <<construction, m_eventRecordsByKey, newRecordIter,
                   needsCallback, emitPos, crashed, nextId, notifiedInCall,
                   upstream, delivered, foundEmpty, moved, serial, serialCopy,
                   serialFirst>>

\* A faulty drain, against which C15 is tested: flush leaves the map alone.
DrainedKeys_Kept(byKey) == byKey

\* Lines 251-252: the sink's map after it was swapped with the empty local
\* map and cleared.
DrainedKeys(byKey) == EmptyMap

\* Lines 251-253: swap the map with the empty local map, clear it, unlock.
\* The local map is never read and dies with the call; it is not kept.
flush_swapKeys(t) ==
    /\ ~crashed
    /\ pc[t] = "f_swapKeys"
    /\ m_eventRecordsByKey' = DrainedKeys(m_eventRecordsByKey)
    /\ mtx' = ReleasedLock(mtx)
    /\ emitPos' = [emitPos EXCEPT ![t] = 1]
    /\ serialCopy' = [serialCopy EXCEPT ![t] = serial.records]
    /\ serial' = [records |-> <<>>, byKey |-> EmptyMap]
    /\ pc' = [pc EXCEPT ![t] = "f_emit"]
    /\ UNCHANGED <<construction, m_eventRecords, call,
                   newRecordIter, needsCallback, eventRecordsCopy, result,
                   crashed, nextId, notifiedInCall, upstream, intakeLog,
                   delivered, flushesDue, flushLog, foundEmpty, moved,
                   serialFirst>>

\* The upstream call a record's emit makes (lines 154-167, 268-282).
emit(r) ==
    [method |-> IF r.kind = "Focus" THEN "HandleFocusChangedEvent"
                ELSE IF r.kind = "Automation" THEN "HandleAutomationEvent"
                ELSE "HandlePropertyChangedEvent",
     id |-> r.id, element |-> r.element, eventID |-> r.eventID,
     propertyID |-> r.propertyID, value |-> r.value,
     coalescingKey |-> r.coalescingKey, coalesceCount |-> r.coalesceCount]

\* Lines 258-260: whether the loop emits a record.
Emits(r) == ~r.isOld

\* The status rateLimitedUIAEventHandler_flush returns after flush (line 308).
FlushStatus == S_OK

\* A faulty loop, against which C11 is tested: it stops at the first failure.
ContinuesAfter_Succeeded(hr) == hr = S_OK

\* Line 261: the status emit returns is discarded, the loop goes on.
ContinuesAfter(hr) == TRUE

\* The count of upstream calls per record id, after one more call for id.
Deliver(d, id) ==
    IF id \in DOMAIN d THEN [d EXCEPT ![id] = @ + 1] ELSE (id :> 1) @@ d

\* Lines 257-262: one turn of the emit loop, outside the lock.  The upstream
\* handler returns one of the statuses hrs.
flush_emit(t, hrs) ==
    /\ ~crashed
    /\ pc[t] = "f_emit"
    /\ emitPos[t] <= Len(eventRecordsCopy[t])
    /\ LET record == eventRecordsCopy[t][emitPos[t]]
       IN  IF Emits(record)
           THEN \E hr \in hrs :
                  /\ upstream' = [upstream EXCEPT ![t] =
                                      Append(@, [hr |-> hr] @@ emit(record))]
                  /\ delivered' = Deliver(delivered, record.id)
                  /\ emitPos' = [emitPos EXCEPT ![t] =
                                     IF ContinuesAfter(hr) THEN @ + 1
                                     ELSE Len(eventRecordsCopy[t]) + 1]
           ELSE /\ emitPos' = [emitPos EXCEPT ![t] = @ + 1]
                /\ UNCHANGED <<upstream, delivered>>
    /\ UNCHANGED <<shared, pc, call, newRecordIter, needsCallback,
                   eventRecordsCopy, result, crashed, nextId, notifiedInCall,
                   intakeLog, flushesDue, ghost>>

\* Lines 263-264, 308: the loop is over, flush returns (its local list is
\* destroyed) and the entry point returns S_OK.
flush_return(t) ==
    /\ ~crashed
    /\ pc[t] = "f_emit"
    /\ emitPos[t] > Len(eventRecordsCopy[t])
    /\ result' = [result EXCEPT ![t] = FlushStatus]
    /\ eventRecordsCopy' = [eventRecordsCopy EXCEPT ![t] = <<>>]
    /\ emitPos' = [emitPos EXCEPT ![t] = 0]
    /\ upstream' = [upstream EXCEPT ![t] = <<>>]
    /\ flushLog' = [flushLog EXCEPT ![t] = <<>>]
    /\ serialCopy' = [serialCopy EXCEPT ![t] = <<>>]
    /\ pc' = [pc EXCEPT ![t] = "ret"]
    /\ UNCHANGED <<shared, call, newRecordIter, needsCallback, crashed, nextId,
                   notifiedInCall, intakeLog, delivered, flushesDue, foundEmpty,
                   moved, serial, serialFirst>>

\* The call has returned to its caller; the thread is free for the next call.
Return(t) ==
    /\ ~crashed
    /\ pc[t] = "ret"
    /\ pc' = [pc EXCEPT ![t] = "idle"]
    /\ call' = [call EXCEPT ![t] = NoCall]
    /\ newRecordIter' = [newRecordIter EXCEPT ![t] = 0]
    /\ needsCallback' = [needsCallback EXCEPT ![t] = FALSE]
    /\ result' = [result EXCEPT ![t] = NoResult]
    /\ notifiedInCall' = [notifiedInCall EXCEPT ![t] = 0]
    /\ foundEmpty' = [foundEmpty EXCEPT ![t] = FALSE]
    /\ serialFirst' = [serialFirst EXCEPT ![t] = FALSE]
    /\ UNCHANGED <<shared, eventRecordsCopy, emitPos, crashed, nextId,
                   upstream, intakeLog, delivered, flushesDue, flushLog, moved,
                   serial, serialCopy>>

\* ------------------------------------------------------------ specification

\* One step of thread t, the intakes' elements drawn from elems and the
\* statuses of the upstream handlers from hrs, with the given host.
Step(t, elems, hrs, host) ==
    \/ \E e \in elems, id \in EventIds :
          HandleAutomationEvent(t, e, id)
    \/ \E e \in elems :
          HandleFocusChangedEvent(t, e)
    \/ \E e \in elems, p \in PropertyIds, v \in Values :
          HandlePropertyChangedEvent(t, e, p, v)
    \/ queueEvent_coalesce(t)
    \/ queueEvent_fault(t)
    \/ queueEvent_notify(t, host)
    \/ \E p \in {Sink, NULL} : rateLimitedUIAEventHandler_flush(t, p, host)
    \/ flush_swapKeys(t)
    \/ flush_emit(t, hrs)
    \/ flush_return(t)
    \/ Return(t)

\* Events of the element E1; the upstream handlers succeed.
Next == \E t \in Threads : Step(t, {"E1"}, {S_OK}, AnyHost)

Spec == Init /\ [][Next]_vars

\* Events of E1 and events whose element pointer is null.
NextNull == \E t \in Threads : Step(t, {"E1", NULL}, {S_OK}, AnyHost)

SpecNull == Init /\ [][NextNull]_vars

\* The host creates the sink, then events of E1 arrive and the host flushes.
NextCreate ==
    \/ \E pExistingHandler \in {"handler", NULL}, onFirstEvent \in {"fn", NULL},
          ppRateLimitedEventHandler \in {"out", NULL} :
          \E exposes \in IF pExistingHandler = NULL THEN {{}} ELSE SUBSET Kinds :
             rateLimitedUIAEventHandler_create(pExistingHandler, exposes,
                                               onFirstEvent,
                                               ppRateLimitedEventHandler)
    \/ (m_refCount > 0 /\ Next)

SpecCreate == InitCreate /\ [][NextCreate]_vars

\* Events of E1; an upstream handler succeeds or fails.
NextUpstream == \E t \in Threads : Step(t, {"E1"}, {S_OK, E_FAIL}, AnyHost)

\* The sink built over a handler that exposes the three interfaces, with a
\* callable callback.
InitAllKinds == Init /\ handlers = Kinds /\ m_onFirstEvent = "callable"

SpecUpstream == InitAllKinds /\ [][NextUpstream]_vars

\* One thread; events of two elements, E1 and E2, with different runtime ids.
NextKeys == Step(1, Elements, {S_OK}, AnyHost)

SpecKeys == InitAllKinds /\ [][NextKeys]_vars

\* Events of E1 under a host that answers the callback: every invocation of
\* m_onFirstEvent posts one flush of the sink, and the host calls
\* rateLimitedUIAEventHandler_flush only for a flush that was posted.
NextWakeup == \E t \in Threads : Step(t, {"E1"}, {S_OK}, PostingHost)

\* The steps that take a call thread t has started on to its return.
Continue(t) ==
    \/ queueEvent_coalesce(t)
    \/ queueEvent_notify(t, PostingHost)
    \/ flush_swapKeys(t)
    \/ flush_emit(t, {S_OK})
    \/ flush_return(t)
    \/ Return(t)

\* A thread inside a call keeps running (no step of Continue waits for a
\* lock the thread does not hold), and a posted flush is eventually run by
\* the host, on whichever thread.  Nothing obliges an event to arrive.
Fairness ==
    /\ \A t \in Threads : WF_vars(Continue(t))
    /\ SF_vars(\E t \in Threads :
                  rateLimitedUIAEventHandler_flush(t, Sink, PostingHost))

SpecWakeup == InitAllKinds /\ [][NextWakeup]_vars /\ Fairness

\* ------------------------------------------------------------------ claims

\* The kinds the design coalesces.
Coalesceable(kind) == kind \in {"Automation", "PropertyChanged"}

\* Thread t runs an intake / runs flush on the sink.
InIntake(t) == call[t].kind \in Kinds
InFlush(t) == call[t].op = "flush" /\ call[t].element = Sink

\* The flush of thread t has dispatched its whole batch.
FlushDone(t) == pc[t] = "f_emit" /\ emitPos[t] > Len(eventRecordsCopy[t])

\* The positions of the coalesceable entries of key K in a list or a log.
Positions(log, K) ==
    {i \in 1..Len(log) : Coalesceable(log[i].kind) /\ log[i].coalescingKey = K}

KeysOf(log) ==
    {log[i].coalescingKey : i \in {j \in 1..Len(log) : Coalesceable(log[j].kind)}}

LastOf(S) == CHOOSE i \in S : \A j \in S : j <= i

RECURSIVE SumCounts(_, _)
SumCounts(records, S) ==
    IF S = {} THEN 0
    ELSE LET i == CHOOSE j \in S : TRUE
         IN records[i].coalesceCount + SumCounts(records, S \ {i})

\* The upstream calls of a flush that dispatch an intake of key K of its batch.
CallsFor(calls, log, K) ==
    {i \in 1..Len(calls) : calls[i].id \in {log[j].id : j \in Positions(log, K)}}

SamePayload(c, e) ==
    /\ c.id = e.id
    /\ c.element = e.element
    /\ c.eventID = e.eventID
    /\ c.propertyID = e.propertyID
    /\ c.value = e.value

\* C1: when a flush has dispatched its batch, every coalescing key that
\* received at least one intake since the previous flush has caused exactly
\* one upstream call, and that call carries the element and payload of the
\* most recent intake of the key.
C1_OneCallPerKey ==
    \A t \in Threads :
        FlushDone(t) =>
            \A K \in KeysOf(flushLog[t]) :
                LET calls == CallsFor(upstream[t], flushLog[t], K)
                    last == flushLog[t][LastOf(Positions(flushLog[t], K))]
                IN  /\ Cardinality(calls) = 1
                    /\ \A i \in calls : SamePayload(upstream[t][i], last)

\* C2: whenever no intake is inside its critical section, the buffer holds at
\* most one record of any coalescing key.
C2_CoalescingSingleton ==
    mtx = NoThread =>
        \A K \in KeysOf(m_eventRecords) :
            Cardinality(Positions(m_eventRecords, K)) <= 1

\* C3: whenever no intake is inside its critical section, for every coalescing
\* key the coalesceCounts of its buffered records add up to the number of
\* intakes of the key since the last flush, and the surviving (latest) record
\* of the key has that count.
C3_CountConservation ==
    mtx = NoThread =>
        \A K \in KeysOf(intakeLog) :
            LET n == Cardinality(Positions(intakeLog, K))
                R == Positions(m_eventRecords, K)
            IN  /\ SumCounts(m_eventRecords, R) = n
                /\ R # {}
                /\ m_eventRecords[LastOf(R)].coalesceCount = n

\* The intakes of a batch that survive coalescing: every Focus intake, and
\* the most recent intake of every coalescing key.
Survivors(log) ==
    LET Survives(e) ==
            \/ ~Coalesceable(e.kind)
            \/ e.id = log[LastOf(Positions(log, e.coalescingKey))].id
    IN  SelectSeq(log, Survives)

\* C4: when a flush has dispatched its batch, its upstream calls are, in
\* order, the surviving intakes of the batch in the order of their (last)
\* enqueue: a coalescing class is emitted at the place of its most recent
\* intake.
C4_FifoByFinalEnqueue ==
    \A t \in Threads :
        FlushDone(t) =>
            [i \in 1..Len(upstream[t]) |-> upstream[t][i].id]
                = [i \in 1..Len(Survivors(flushLog[t])) |-> Survivors(flushLog[t])[i].id]

\* C5: an intake that returns S_OK has invoked the callback exactly once if
\* it found the buffer empty, and not at all if it is an Automation or
\* PropertyChanged intake that found it non-empty; the callback is not invoked
\* before the record is in the buffer; and exactly the first record of a
\* batch found the buffer empty, so a batch gets one invocation.
C5_NotifyOnFirstOfBatch ==
    /\ \A t \in Threads :
          /\ (pc[t] = "ret" /\ InIntake(t) /\ result[t] = S_OK) =>
                /\ foundEmpty[t] => notifiedInCall[t] = 1
                /\ (~foundEmpty[t] /\ Coalesceable(call[t].kind)) => notifiedInCall[t] = 0
          /\ pc[t] \in {"q_coalesce", "q_notify"} => notifiedInCall[t] = 0
    /\ \A i \in 1..Len(intakeLog) : intakeLog[i].wasEmpty <=> i = 1

\* C5's case: one intake has returned S_OK as the first of its batch, having
\* invoked the callback once, and a coalesceable intake has returned S_OK into
\* a non-empty buffer without invoking it.
C5_Witness ==
    \E t, u \in Threads :
        /\ pc[t] = "ret" /\ InIntake(t) /\ result[t] = S_OK
        /\ foundEmpty[t] /\ notifiedInCall[t] = 1
        /\ pc[u] = "ret" /\ Coalesceable(call[u].kind) /\ result[u] = S_OK
        /\ ~foundEmpty[u] /\ notifiedInCall[u] = 0

\* C6: a Focus intake that returns S_OK has invoked the callback, also when
\* the buffer was not empty.
C6_FocusForcesNotify ==
    \A t \in Threads :
        (pc[t] = "ret" /\ call[t].kind = "Focus" /\ result[t] = S_OK) =>
            notifiedInCall[t] = 1

\* C7: an intake of a kind whose upstream handler is missing returns
\* E_NOTIMPL at once, leaving list and map unchanged and the callback not
\* invoked; an intake of a kind that is exposed appends its record and, when
\* it returns, returns S_OK.
C7_MissingCapability ==
    [][\A t \in Threads :
          /\ (pc[t] = "idle" /\ pc'[t] # "idle" /\ call'[t].kind \in Kinds \ handlers) =>
                /\ pc'[t] = "ret"
                /\ result'[t] = E_NOTIMPL
                /\ UNCHANGED <<m_eventRecords, m_eventRecordsByKey, notifiedInCall>>
          /\ (pc[t] = "idle" /\ pc'[t] # "idle" /\ call'[t].kind \in Kinds \cap handlers) =>
                /\ pc'[t] \in {"q_coalesce", "fault"}
                /\ pc'[t] = "q_coalesce" =>
                      /\ Len(m_eventRecords') = Len(m_eventRecords) + 1
                      /\ m_eventRecords'[Len(m_eventRecords')].kind = call'[t].kind
                      /\ SubSeq(m_eventRecords', 1, Len(m_eventRecords)) = m_eventRecords
          /\ (InIntake(t) /\ call[t].kind \in handlers /\ pc[t] # "ret" /\ pc'[t] = "ret") =>
                result'[t] = S_OK
      ]_vars

\* C7's case: an intake has been refused with E_NOTIMPL while a record of an
\* exposed kind is in the buffer.
C7_Witness ==
    \E t \in Threads :
        /\ pc[t] = "ret" /\ InIntake(t) /\ result[t] = E_NOTIMPL
        /\ m_eventRecords # <<>>
        /\ \A i \in 1..Len(m_eventRecords) : m_eventRecords[i].kind # call[t].kind

\* C8: an intake called with a null element (and an upstream handler for its
\* kind) returns E_INVALIDARG and has enqueued nothing.
C8_NullElementInvalidArg ==
    \A t \in Threads :
        (pc[t] = "ret" /\ InIntake(t) /\ call[t].element = NULL
            /\ call[t].kind \in handlers) =>
            /\ result[t] = E_INVALIDARG
            /\ newRecordIter[t] = 0

\* C9: a flush of the sink that finds the buffer empty leaves list and map
\* empty, makes no upstream call, does not invoke the callback, and the entry
\* point returns S_OK.
C9_EmptyFlushNoOp ==
    [][\A t \in Threads :
          /\ (pc[t] = "idle" /\ pc'[t] # "idle" /\ call'[t].op = "flush"
                /\ call'[t].element = Sink /\ m_eventRecords = <<>>) =>
                /\ pc'[t] = "f_swapKeys"
                /\ eventRecordsCopy'[t] = <<>>
                /\ m_eventRecords' = <<>> /\ m_eventRecordsByKey' = EmptyMap
                /\ UNCHANGED <<notifiedInCall, upstream>>
          /\ (pc[t] = "f_swapKeys" /\ eventRecordsCopy[t] = <<>> /\ pc'[t] # pc[t]) =>
                /\ pc'[t] = "f_emit"
                /\ m_eventRecords' = <<>> /\ m_eventRecordsByKey' = EmptyMap
                /\ UNCHANGED <<notifiedInCall, upstream>>
          /\ (pc[t] = "f_emit" /\ eventRecordsCopy[t] = <<>> /\ pc'[t] # pc[t]) =>
                /\ pc'[t] = "ret"
                /\ result'[t] = S_OK
                /\ upstream[t] = <<>>
                /\ UNCHANGED <<m_eventRecords, m_eventRecordsByKey, notifiedInCall>>
      ]_vars

\* C9's case: a flush has drained an empty buffer and is about to return.
C9_Witness ==
    \E t \in Threads :
        /\ InFlush(t) /\ FlushDone(t)
        /\ eventRecordsCopy[t] = <<>> /\ flushLog[t] = <<>>
        /\ upstream[t] = <<>>

\* C10: list, map and each intake's view of "the list was empty" are those of
\* a run in which every critical section (an intake's empty check, insert and
\* coalescing; flush's drain) happens at once, in the order the sections end;
\* a flush dispatches the list that run drains.
C10_Serialized ==
    /\ mtx = NoThread =>
          /\ m_eventRecords = serial.records
          /\ m_eventRecordsByKey = serial.byKey
    /\ \A t \in Threads :
          /\ pc[t] = "q_notify" => needsCallback[t] = serialFirst[t]
          /\ pc[t] = "f_emit" => eventRecordsCopy[t] = serialCopy[t]
          /\ (pc[t] \in {"q_coalesce", "f_swapKeys"}) => mtx = t

\* C10's case: two intakes are in flight on two threads at once, both past
\* their critical sections, and both records are in the list.
C10_Witness ==
    /\ \A t \in Threads : pc[t] = "q_notify"
    /\ Len(m_eventRecords) = Cardinality(Threads)

\* The ids of a list of records or of upstream calls, in order.
Ids(seq) == [i \in 1..Len(seq) |-> seq[i].id]

\* The records of a drained list that flush is to dispatch.
NotOld(records) ==
    LET Live(r) == ~r.isOld IN SelectSeq(records, Live)

\* C11: a flush that ends has called upstream, in list order, for every record
\* of its batch that is not marked old, whatever statuses the upstream handlers
\* returned (a failure does not stop the loop), and the entry point returns
\* S_OK also when some upstream call failed.
C11_UpstreamFailureIgnored ==
    [][\A t \in Threads :
          (FlushDone(t) /\ pc'[t] = "ret") =>
              /\ Ids(upstream[t]) = Ids(NotOld(eventRecordsCopy[t]))
              /\ result'[t] = S_OK
      ]_vars

\* C11's case: a flush has dispatched its whole batch, an upstream call that
\* failed being followed by a later call of the batch.
C11_Witness ==
    \E t \in Threads :
        /\ FlushDone(t)
        /\ Len(upstream[t]) >= 2
        /\ upstream[t][1].hr = E_FAIL

\* C12: rateLimitedUIAEventHandler_create returns E_INVALIDARG, creating no
\* sink, when its existing handler, its callback or its out-pointer is null, and
\* otherwise returns S_OK with a sink of reference count 1 and empty list and
\* map; rateLimitedUIAEventHandler_flush returns E_INVALIDARG for a null sink,
\* changing nothing, and S_OK for a sink.
C12_EntryPointValidation ==
    [][/\ creation' # creation =>
            IF \/ creation'.pExistingHandler = NULL
               \/ creation'.onFirstEvent = NULL
               \/ creation'.ppRateLimitedEventHandler = NULL
            THEN creation'.status = E_INVALIDARG /\ m_refCount' = 0
            ELSE /\ creation'.status = S_OK
                 /\ m_refCount' = 1
                 /\ m_eventRecords' = <<>> /\ m_eventRecordsByKey' = EmptyMap
       /\ \A t \in Threads :
            (pc[t] # "ret" /\ pc'[t] = "ret" /\ call'[t].op = "flush") =>
                IF call'[t].element = NULL
                THEN /\ result'[t] = E_INVALIDARG
                     /\ UNCHANGED <<m_eventRecords, m_eventRecordsByKey,
                                    upstream, notifiedInCall>>
                ELSE result'[t] = S_OK
      ]_vars

\* C13: whenever no thread holds the lock, the map entry of the key of every
\* Automation or PropertyChanged record of the list that is not marked old
\* refers to that record; after a coalescing hit it refers to the new record.
C13_IndexInSync ==
    mtx = NoThread =>
        \A i \in 1..Len(m_eventRecords) :
            LET r == m_eventRecords[i]
            IN  (Coalesceable(r.kind) /\ ~r.isOld) =>
                    /\ r.coalescingKey \in DOMAIN m_eventRecordsByKey
                    /\ m_eventRecordsByKey[r.coalescingKey] = r.id

\* The number of entries of a list, a log or a sequence of upstream calls
\* that satisfy Test.
Count(seq, Test(_)) == Cardinality({i \in 1..Len(seq) : Test(seq[i])})

\* C14: no map entry ever refers to a Focus record, and a flush that has
\* dispatched its batch has made one HandleFocusChangedEvent upstream call for
\* each Focus intake of the batch.
C14_FocusNeverCoalesced ==
    LET IsFocus(e) == e.kind = "Focus"
        IsFocusCall(c) == c.method = "HandleFocusChangedEvent"
    IN  /\ \A K \in DOMAIN m_eventRecordsByKey :
              \A i \in AtIter(m_eventRecords, m_eventRecordsByKey[K]) :
                  ~IsFocus(m_eventRecords[i])
        /\ \A t \in Threads :
              FlushDone(t) =>
                  Count(upstream[t], IsFocusCall) = Count(flushLog[t], IsFocus)

\* C15, as stated: whenever no thread holds the lock, the list is empty if
\* and only if the map is empty.
C15_BufferEmptyIffIndexEmpty ==
    mtx = NoThread =>
        (m_eventRecords = <<>> <=> m_eventRecordsByKey = EmptyMap)

\* C15, amended: whenever no thread holds the lock, the map is empty if the
\* list is empty.  (A list that holds records without a key, such as Focus
\* records, is not empty while the map is.)
C15_IndexEmptyIfBufferEmpty ==
    mtx = NoThread =>
        (m_eventRecords = <<>> => m_eventRecordsByKey = EmptyMap)

\* C15's case: a flush has drained a list that held an Automation or
\* PropertyChanged record, and list and map are empty while it emits.
C15_Witness ==
    \E t \in Threads :
        /\ pc[t] = "f_emit"
        /\ \E i \in 1..Len(eventRecordsCopy[t]) :
              Coalesceable(eventRecordsCopy[t][i].kind)
        /\ mtx = NoThread
        /\ m_eventRecords = <<>> /\ m_eventRecordsByKey = EmptyMap

\* The ids of the records of a list, as a set.
IdSet(records) == {records[i].id : i \in 1..Len(records)}

\* C16: while a flush is dispatching the list it has swapped out, a step of
\* another thread leaves that list as it is (no record of it is marked old or
\* added); an intake that arrives then appends its record to the sink's list,
\* notes whether that list was empty and, if it was, invokes the callback
\* before it returns; no map entry refers to a record of the list being
\* dispatched, the sink's list shares no record with it, and the flush calls
\* upstream only for records of its own list.
C16_FreshBatchDuringEmission ==
    [][\A t \in Threads :
          (pc[t] = "f_emit" /\ pc'[t] = "f_emit") =>
              /\ eventRecordsCopy'[t] = eventRecordsCopy[t]
              /\ \A K \in DOMAIN m_eventRecordsByKey' :
                    m_eventRecordsByKey'[K] \notin IdSet(eventRecordsCopy[t])
              /\ IdSet(m_eventRecords') \cap IdSet(eventRecordsCopy[t]) = {}
              /\ IdSet(upstream'[t]) \subseteq IdSet(eventRecordsCopy[t])
              /\ \A u \in Threads \ {t} :
                    /\ (pc[u] = "idle" /\ pc'[u] = "q_coalesce") =>
                          /\ Len(m_eventRecords') = Len(m_eventRecords) + 1
                          /\ SubSeq(m_eventRecords', 1, Len(m_eventRecords)) = m_eventRecords
                          /\ m_eventRecords'[Len(m_eventRecords')].id = newRecordIter'[u]
                          /\ needsCallback'[u] = (m_eventRecords = <<>>)
                    /\ (pc[u] = "q_notify" /\ pc'[u] = "ret" /\ needsCallback[u]) =>
                          notifiedInCall'[u] = 1
      ]_vars

\* C16's case: while a flush is still dispatching, an intake of a key of the
\* batch being dispatched has returned S_OK as the first record of the new
\* batch, having invoked the callback.
C16_Witness ==
    \E t, u \in Threads :
        /\ pc[t] = "f_emit" /\ emitPos[t] <= Len(eventRecordsCopy[t])
        /\ pc[u] = "ret" /\ InIntake(u) /\ result[u] = S_OK
        /\ Coalesceable(call[u].kind)
        /\ foundEmpty[u] /\ notifiedInCall[u] = 1
        /\ IdSet(m_eventRecords) = {newRecordIter[u]}
        /\ \E i \in 1..Len(eventRecordsCopy[t]) :
              /\ eventRecordsCopy[t][i].coalescingKey = m_eventRecords[1].coalescingKey
              /\ ~eventRecordsCopy[t][i].isOld

\* C17: a thread that is about to invoke the callback, or that is dispatching
\* to the upstream handlers, does not hold the lock; and whoever holds the lock
\* is inside a critical section that waits for nothing: its next step, which
\* releases the lock, can be taken.  So a call into the sink made from the
\* callback or from an upstream handler never waits for its own caller.
C17_NoLockDuringCallbacks ==
    /\ \A t \in Threads :
          pc[t] \in {"q_notify", "f_emit", "ret", "idle"} => mtx # t
    /\ (mtx # NoThread /\ ~crashed) =>
          /\ pc[mtx] \in {"q_coalesce", "f_swapKeys"}
          /\ ENABLED (queueEvent_coalesce(mtx) \/ flush_swapKeys(mtx))

\* C17's case: one thread is about to invoke the callback for the record it
\* has inserted, another dispatches a batch to the upstream handlers, and a
\* call into the sink made now gets the lock.
C17_Witness ==
    \E t, u \in Threads :
        /\ pc[t] = "q_notify" /\ needsCallback[t]
        /\ pc[u] = "f_emit" /\ emitPos[u] <= Len(eventRecordsCopy[u])
        /\ ~eventRecordsCopy[u][emitPos[u]].isOld
        /\ mtx = NoThread

\* The records that exist in the sink's list or in the local list of a flush.
LiveRecords ==
    {m_eventRecords[i] : i \in 1..Len(m_eventRecords)}
        \cup UNION {{eventRecordsCopy[t][i] : i \in 1..Len(eventRecordsCopy[t])} :
                        t \in Threads}

\* The records the three constructors can yield for the next intake.
Constructible ==
    (FocusChangedEventRecord_t(nextId + 1, "E1")
        \cup UNION {AutomationEventRecord_t(nextId + 1, "E1", e) : e \in EventIds}
        \cup UNION {PropertyChangedEventRecord_t(nextId + 1, "E1", p, v) :
                        p \in PropertyIds, v \in Values}) \ {Fault}

\* After any step every listed record has a coalesceCount of at least 1, a
\* record that enters a list enters with 1, no count decreases, and a count
\* that grows grows by the count of another listed record, which the step
\* leaves marked old.
CountsGrowByMerging ==
    LET before == LiveRecords
        after == LiveRecords'
    IN  after # before =>
          /\ \A r \in after : r.coalesceCount >= 1
          /\ \A r \in after :
                (r.id \notin {o.id : o \in before} /\ nextId' # nextId) =>
                    r.coalesceCount = 1
          /\ \A r \in before : \A r2 \in after :
                r2.id = r.id =>
                    \/ r2.coalesceCount = r.coalesceCount
                    \/ \E o \in before :
                          /\ r2.coalesceCount = r.coalesceCount + o.coalesceCount
                          /\ \E o2 \in after : o2.id = o.id /\ o2.isOld

\* C18, as stated: a record has a coalesceCount of 1 from its construction
\* and of at least 1 while it is listed.
C18_CountOneFromConstruction ==
    /\ \A r \in Constructible : r.coalesceCount = 1
    /\ \A r \in LiveRecords : r.coalesceCount >= 1

\* C18, amended: every record in the sink's list or in a flush's local list
\* has a coalesceCount of at least 1 (a record is constructed with 0 and counted
\* when queueEvent lists it); the count never decreases and only grows by the
\* count of the record it supersedes.
C18_ListedCountAtLeastOne ==
    [][CountsGrowByMerging]_vars

\* C18's case: a listed record has taken over the count of the record it
\* superseded.
C18_Witness ==
    \E r, o \in LiveRecords :
        /\ o.isOld /\ o.id # r.id
        /\ r.coalesceCount = 1 + o.coalesceCount

\* C19: two Automation or PropertyChanged records, of elements whose runtime
\* ids the OS provides, have the same coalescingKey only if they are of the
\* same kind, their elements have the same runtime id, and they carry the same
\* event id or property id; so only such records coalesce.
C19_KeyIdentifiesClass ==
    \A i, j \in 1..Len(m_eventRecords) :
        LET a == m_eventRecords[i]
            b == m_eventRecords[j]
        IN  (/\ Coalesceable(a.kind) /\ Coalesceable(b.kind)
             /\ a.coalescingKey = b.coalescingKey) =>
                /\ a.kind = b.kind
                /\ RuntimeId(a.element) = RuntimeId(b.element)
                /\ a.eventID = b.eventID
                /\ a.propertyID = b.propertyID

\* C20: no record is dispatched to an upstream handler more than once, by one
\* flush or by several: every record has had at most one upstream call, and the
\* lists that concurrent flushes dispatch share no record with each other or
\* with the sink's list.
C20_NoDuplicateDelivery ==
    /\ \A id \in DOMAIN delivered : delivered[id] <= 1
    /\ \A t \in Threads :
          /\ IdSet(eventRecordsCopy[t]) \cap IdSet(m_eventRecords) = {}
          /\ \A u \in Threads \ {t} :
                IdSet(eventRecordsCopy[t]) \cap IdSet(eventRecordsCopy[u]) = {}

\* C20's case: two flushes run at once, each has drained a record and has
\* called upstream for it.
C20_Witness ==
    \A t \in Threads :
        /\ pc[t] = "f_emit"
        /\ upstream[t] # <<>>
        /\ IdSet(upstream[t]) \subseteq DOMAIN delivered

\* The intake of record id has appended it to the buffer, which no flush has
\* taken since.
Enqueued(id) == \E i \in 1..Len(intakeLog) : intakeLog[i].id = id

\* In a batch, record id is followed by a record of its key.
SupersededIn(log, id) ==
    \E i \in 1..Len(log) :
       /\ log[i].id = id
       /\ \E j \in Positions(log, log[i].coalescingKey) :
             i < j /\ i \in Positions(log, log[i].coalescingKey)

Superseded(id) ==
    \/ SupersededIn(intakeLog, id)
    \/ \E t \in Threads : SupersededIn(flushLog[t], id)

\* Record id has been passed to its upstream handler.
Dispatched(id) == id \in DOMAIN delivered

\* Record id sits in the buffer or in a flush's batch with its isOld flag set.
FlaggedOld(id) ==
    \/ \E i \in 1..Len(m_eventRecords) :
          m_eventRecords[i].id = id /\ m_eventRecords[i].isOld
    \/ \E t \in Threads : \E i \in 1..Len(eventRecordsCopy[t]) :
          eventRecordsCopy[t][i].id = id /\ eventRecordsCopy[t][i].isOld

\* While records are buffered, the flush that will take them has been posted
\* (the callback was invoked) or the intake that found the buffer empty is
\* on its way to the callback.
NotifyIssuedOrDue ==
    m_eventRecords # <<>> =>
       \/ flushesDue > 0
       \/ \E t \in Threads : pc[t] \in {"q_coalesce", "q_notify"} /\ needsCallback[t]
       \/ crashed

\* C21: no lost wakeup.  With a host that flushes after every invocation of
\* the callback, buffered records always have a callback invocation issued or
\* about to be issued, and every enqueued record is eventually dispatched to
\* its upstream handler unless a later record of its key supersedes it (or
\* the process has faulted).
C21_NoLostWakeup ==
    /\ []NotifyIssuedOrDue
    /\ \A id \in 1..MaxIntakes :
          Enqueued(id) ~> (Dispatched(id) \/ Superseded(id) \/ crashed)

\* The part of C21 the notification protocol alone carries: every enqueued
\* record is eventually dispatched or is one queueEvent has flagged isOld.
WakeupReachesUnflagged ==
    /\ []NotifyIssuedOrDue
    /\ \A id \in 1..MaxIntakes :
          Enqueued(id) ~> (Dispatched(id) \/ FlaggedOld(id) \/ crashed)

====
